---------------------------- MODULE Spec2Model ----------------------------
(***************************************************************************)
(* A model of scripts/parse_live.py (CitationHunt): the main process       *)
(* (parse_live and __main__), the multiprocessing.Pool it drives, the      *)
(* pool's worker processes running initializer and work (wrapped by        *)
(* with_max_exceptions), and the two scratch tables `articles` and         *)
(* `snippets`.                                                             *)
(*                                                                         *)
(* Strings are sequences of one-character strings.  Page identifiers are   *)
(* the integers 1..n.  What the API and the snippet parser give for the    *)
(* pages of a batch is an input of the step that fetches the batch.        *)
(*                                                                         *)
(* multiprocessing.Pool is the Python 2 standard library's (the script is  *)
(* Python 2: itertools.imap, StringIO, urllib.quote).  What the model      *)
(* takes from it is stated where it is used.                               *)
(***************************************************************************)
EXTENDS Integers, Sequences, FiniteSets, TLC

VARIABLES
    pc,             \* where the main process is in __main__ / parse_live
    pageids,        \* parse_live's argument: the set of page identifiers
    order,          \* the iteration order of that set, as list() sees it
    nprocs,         \* cpu_count(): the number of processes Pool() starts
    live,           \* the pages of the wiki that have a title
    repeats,        \* whether the fetch client may yield a page of a batch twice
    pageids_list,   \* parse_live's local
    tasks,          \* parse_live's local: the batches
    i,              \* parse_live's loop variable
    taskq,          \* the pool's task queue: the chunks not yet taken
    number_left,    \* MapResult: chunks whose result is still awaited
    ready,          \* MapResult.ready()
    success,        \* MapResult: FALSE once a chunk's result is an exception
    closed,         \* pool.close() was called
    terminated,     \* pool.terminate() was called
    deadline,       \* TRUE once `timeout` seconds have passed since the wait began
    wk,             \* the worker processes: per-process state (`self`) and position
    articles,       \* the scratch table `articles`
    snippets,       \* the scratch table `snippets`
    skipped,        \* (history) the pages work's first loop met that have no
                    \* title, no text or no fragment
    runs,           \* (history) per batch, the number of calls of work on it
    reraised,       \* (history) per process, the number of exceptions its
                    \* with_max_exceptions wrapper re-raised
    lost,           \* (history) the pages with fragments that work had extracted
                    \* when a later page of the batch made it raise
    unwritten,      \* (history) the pages whose rows work had built and whose
                    \* turn in the write loop had not come when the loop raised
    section,        \* the argument of a call of section_name_to_anchor
    anchor          \* what the call returned

vars == <<pc, pageids, order, nprocs, live, repeats, pageids_list, tasks, i, taskq, number_left, ready,
          success, closed, terminated, deadline, wk, articles, snippets, skipped,
          runs, reraised, lost, unwritten, section, anchor>>

-----------------------------------------------------------------------------
(* Bounds and program constants *)

MAX_EXCEPTIONS_PER_SUBPROCESS == 5

batch_size == 32

\* The largest number of worker processes (multiprocessing.Pool() starts
\* cpu_count() of them).
NumProcs == 2

\* The largest number of batches an input of the main specification makes.
MaxTasks == 7

\* The largest input of the batching specification.
MaxPageids == 70

\* The longest section name given to section_name_to_anchor on its own.
MaxLen == 3

Procs == 1..NumProcs

Min(a, b) == IF a < b THEN a ELSE b

Range(s) == {s[k] : k \in 1..Len(s)}

-----------------------------------------------------------------------------
(* Strings *)

\* s.replace(a, b) for a one-character a
ReplaceChar(s, a, b) == [k \in 1..Len(s) |-> IF s[k] = a THEN b ELSE s[k]]

RECURSIVE Flatten(_)
Flatten(ss) == IF ss = <<>> THEN <<>> ELSE Head(ss) \o Flatten(Tail(ss))

\* The characters urllib.quote never escapes (its always_safe set).
AlwaysSafe ==
    {"a", "b", "c", "A", "S", "e", "l", "s", "o", "3", "2", "5", "_", ".", "-"}

\* The characters of the model's strings that quote does escape, with the
\* two hexadecimal digits ('%02X') of each byte of their UTF-8 encoding
\* ("e-acute" stands for the one character U+00E9, two bytes in UTF-8).
HexBytes(c) ==
    CASE c = " " -> << <<"2", "0">> >>
      [] c = ":" -> << <<"3", "A">> >>
      [] c = "%" -> << <<"2", "5">> >>
      [] c = "/" -> << <<"2", "F">> >>
      [] c = "e-acute" -> << <<"C", "3">>, <<"A", "9">> >>

\* urllib.quote(e(s), safe = e(''))
Quote(s) ==
    Flatten([k \in 1..Len(s) |->
        IF s[k] \in AlwaysSafe THEN <<s[k]>>
        ELSE LET hs == HexBytes(s[k])
             IN  Flatten([j \in 1..Len(hs) |-> <<"%">> \o hs[j]])])

\* s.replace('%3A', ':'): left to right, non-overlapping
RECURSIVE Replace3A(_)
Replace3A(s) ==
    IF Len(s) < 3 THEN s
    ELSE IF SubSeq(s, 1, 3) = <<"%", "3", "A">>
         THEN <<":">> \o Replace3A(SubSeq(s, 4, Len(s)))
         ELSE <<Head(s)>> \o Replace3A(Tail(s))

\* (mutant) lines 60 and 61 in the other order
AnchorPercentFirst(name) ==
    LET s1 == ReplaceChar(name, " ", "_")
        s2 == Quote(s1)
        s3 == ReplaceChar(s2, "%", ".")
    IN  Replace3A(s3)

section_name_to_anchor(name) ==
    LET s1 == ReplaceChar(name, " ", "_")
        s2 == Quote(s1)
        s3 == Replace3A(s2)
    IN  ReplaceChar(s3, "%", ".")

\* utils.mkid: a digest of the string.  Modelled as collision-free: the
\* string read as a number, so two strings get one id only when equal.
CharCode(c) ==
    CASE c = "a" -> 1 [] c = "b" -> 2 [] c = "c" -> 3 [] c = " " -> 4 [] OTHER -> 5

RECURSIVE mkid(_)
mkid(s) == IF s = <<>> THEN 0 ELSE CharCode(Head(s)) + 6 * mkid(Tail(s))

WIKIPEDIA_WIKI_URL == <<"/">>


-----------------------------------------------------------------------------
(* The remote wiki and the snippet parser *)

TextC  == <<"c">>
TextBC == <<"b", "c">>
SecS   == <<"S">>
SecA   == <<"A", " ", ":">>

\* What snippet_parser's extract_snippets yields for a page: a sequence of
\* (section, fragments) pairs.
ExtractorOutputs ==
    { << >>,
      << <<SecS, << >> >> >>,
      << <<SecS, <<TextC>> >> >>,
      << <<SecS, <<TextBC>> >> >>,
      << <<SecS, <<TextC, TextBC>> >> >>,
      << <<SecS, <<TextC>> >>, <<SecA, <<TextC>> >> >> }

\* A page of the API's response: whether it has a 'title', whether its
\* revision text is non-empty, whether extract_snippets raises on the text,
\* and what it yields when it does not.
NoTitlePage   == [has_title |-> FALSE, has_text |-> FALSE, raises |-> FALSE, pairs |-> << >>]
EmptyTextPage == [has_title |-> TRUE,  has_text |-> FALSE, raises |-> FALSE, pairs |-> << >>]
RaisingPage   == [has_title |-> TRUE,  has_text |-> TRUE,  raises |-> TRUE,  pairs |-> << >>]

Pages ==
    {NoTitlePage, EmptyTextPage, RaisingPage}
    \cup {[has_title |-> TRUE, has_text |-> TRUE, raises |-> FALSE, pairs |-> x] :
            x \in ExtractorOutputs}

\* The title of a page.  Pages 1 and 2 are "ab" and "a": with the fragment
\* texts "c" and "bc" the concatenation title + text is the same string.
Title(p) ==
    CASE p = 1 -> <<"a", "b">>
      [] p = 2 -> <<"a">>
      [] OTHER -> <<"a", " ", "c">>

\* What the wiki may hold for the pages of a batch: anything for a page of
\* `live`, no title for every other page.
Wikis(batch) ==
    {[p \in Range(batch) |-> IF p \in live THEN g[p] ELSE NoTitlePage] :
        g \in [live \cap Range(batch) -> Pages \ {NoTitlePage}]}

\* A page work writes nothing for: it has no title, no text, or no fragment.
Barren(page) ==
    \/ ~page.has_title
    \/ ~page.has_text
    \/ \A k \in 1..Len(page.pairs) : page.pairs[k][2] = << >>

-----------------------------------------------------------------------------
(* query_pageids and the first loop of work *)

\* query_pageids: the (id, title, text) tuples of one pass over the batch's
\* pages, those without a 'title' or with an empty text left out.  The
\* pages of a response are taken in the batch's order.
Delivered(batch, remote) ==
    SelectSeq(batch, LAMBDA p : remote[p].has_title /\ remote[p].has_text)

\* query_pageids iterates over every response of request.queryGen(): a page
\* of an earlier response may be in a later response again.  What the
\* generator may yield for a batch: one pass, or one pass and one page of it
\* a second time.
QueryResults(batch, remote) ==
    {Delivered(batch, remote)} \cup
    IF repeats
    THEN {Delivered(batch, remote) \o <<p>> : p \in Range(Delivered(batch, remote))}
    ELSE {}

\* The rows of one (section, fragments) pair of a page: lines 139-143.
PairRows(pageid, pair) ==
    [k \in 1..Len(pair[2]) |->
        [id      |-> mkid(Title(pageid) \o pair[2][k]),
         text    |-> pair[2][k],
         section |-> section_name_to_anchor(pair[1]),
         pageid  |-> pageid]]

\* snippets_rows of a page: lines 135-143.
SnippetsRows(pageid, remote) ==
    LET pairs == remote[pageid].pairs
    IN  Flatten([k \in 1..Len(pairs) |-> PairRows(pageid, pairs[k])])

\* article_row of a page: lines 133 and 146.
ArticleRow(pageid) ==
    [pageid |-> pageid,
     url    |-> WIKIPEDIA_WIKI_URL \o ReplaceChar(Title(pageid), " ", "_"),
     title  |-> Title(pageid)]

\* (mutant) without the `if snippets_rows` of line 145
RowsUnfiltered(results, remote) ==
    [k \in 1..Len(results) |->
        [article  |-> ArticleRow(results[k]),
         snippets |-> SnippetsRows(results[k], remote)]]

\* rows, when the loop of lines 132-147 ends: one entry per result with at
\* least one fragment.
Rows(results, remote) ==
    LET all == [k \in 1..Len(results) |->
                    [article  |-> ArticleRow(results[k]),
                     snippets |-> SnippetsRows(results[k], remote)]]
    IN  SelectSeq(all, LAMBDA x : x.snippets # << >>)

\* extract_snippets raises for one of the results.
ExtractRaises(results, remote) ==
    \E k \in 1..Len(results) : remote[results[k]].raises

\* The pages for which the loop of lines 132-147 had appended an entry to
\* rows when extract_snippets raised for a later result.
ExtractedBeforeRaise(results, remote) ==
    {results[k] : k \in {j \in 1..Len(results) :
        /\ SnippetsRows(results[j], remote) # << >>
        /\ \A h \in 1..j : ~remote[results[h]].raises}}

-----------------------------------------------------------------------------
(* The initial state *)

\* list(pageids): the set's elements in its iteration order.
ListOf(n, o) ==
    CASE o = "fwd" -> [k \in 1..n |-> k]
      [] o = "rev" -> [k \in 1..n |-> n + 1 - k]
      [] o = "rot" -> [k \in 1..n |-> ((k + 6) % n) + 1]

\* A worker process: where it is, and its `self` (exception_count, -1 while
\* the attribute is not set), the chunk of batches it was handed, the rows
\* of the batch it is writing and the index in rows of the `for r in rows`
\* loop.
WorkerAt(p, count, chunk, rows, r) ==
    [pc |-> p, exception_count |-> count, chunk |-> chunk, rows |-> rows, r |-> r]

\* What the scratch tables may hold from an earlier run.
StaleSnippet ==
    [id |-> mkid(Title(1) \o TextC), text |-> TextC, section |-> SecS, pageid |-> 1]

StaleTables == {<<{}, {}>>, <<{ArticleRow(1)}, {StaleSnippet}>>}

\* An input of parse_live and its surroundings: the number of page
\* identifiers, the order list() finds them in, the number of processes of
\* the pool, and the pages of the wiki that have a title.
Input(n, o, procs, pages) == [n |-> n, order |-> o, nprocs |-> procs, live |-> pages]

InitFor(inputs, again) ==
    /\ pc = "reset"
    /\ repeats = again
    /\ \E in \in inputs :
        /\ pageids = 1..in.n
        /\ order = in.order
        /\ nprocs = in.nprocs
        /\ live = in.live
    /\ pageids_list = << >>
    /\ tasks = << >>
    /\ i = 0
    /\ taskq = << >>
    /\ number_left = 0
    /\ ready = FALSE
    /\ success = TRUE
    /\ closed = FALSE
    /\ terminated = FALSE
    /\ deadline = FALSE
    /\ wk = [w \in Procs |-> WorkerAt("none", -1, << >>, << >>, 0)]
    /\ \E t \in StaleTables :
        /\ articles = t[1]
        /\ snippets = t[2]
    /\ skipped = {}
    /\ runs = << >>
    /\ reraised = [w \in Procs |-> 0]
    /\ lost = {}
    /\ unwritten = {}
    /\ section = << >>
    /\ anchor = << >>

\* The inputs of the main specification: no page; one batch and two batches
\* of a wiki whose pages 1 and 2 have a title; one batch of three pages with
\* a title, for one process; MaxTasks batches of pages without a title, for
\* one process (chunks of two batches) and for two.
MainInputs ==
    {Input(0, "fwd", NumProcs, {}),
     Input(2, "fwd", NumProcs, {1, 2}),
     Input(3, "fwd", 1, {1, 2, 3}),
     Input(2, "rev", NumProcs, {1, 2}),
     Input(batch_size + 1, "fwd", NumProcs, {1, 2}),
     Input(batch_size + 1, "rev", NumProcs, {1, 2}),
     Input((MaxTasks - 1) * batch_size + 1, "fwd", 1, {}),
     Input((MaxTasks - 1) * batch_size + 1, "fwd", 2, {})}

Init == InitFor(MainInputs, TRUE)

\* The inputs of the batching specification: every size up to MaxPageids, in
\* three iteration orders.
BatchInputs ==
    {Input(n, o, 1, {}) : n \in 0..MaxPageids, o \in {"fwd", "rev", "rot"}}

InitBatch == InitFor(BatchInputs, TRUE)

-----------------------------------------------------------------------------
(* The main process: parse_live and __main__ *)

mainVars == <<pc, pageids_list, tasks, i, closed, terminated>>
poolVars == <<taskq, number_left, ready, success>>
inputVars == <<pageids, order, nprocs, live, repeats>>
tables == <<articles, snippets, skipped>>
history == <<runs, reraised, lost, unwritten>>
anchorVars == <<section, anchor>>

\* chdb.reset_scratch_db(): line 159.
ResetScratch ==
    /\ pc = "reset"
    /\ articles' = {}
    /\ snippets' = {}
    /\ pc' = "pool"
    /\ UNCHANGED skipped
    /\ UNCHANGED <<anchorVars, inputVars, history, pageids_list, tasks, i, closed, terminated, poolVars,
                   deadline, wk>>

\* multiprocessing.Pool(initializer = ..., initargs = ...): lines 160-162.
\* The pool starts its processes; each runs initializer first.
CreatePool ==
    /\ pc = "pool"
    /\ wk' = [w \in Procs |-> IF w <= nprocs THEN WorkerAt("init", -1, << >>, << >>, 0)
                                ELSE wk[w]]
    /\ pc' = "list"
    /\ UNCHANGED <<anchorVars, inputVars, history, pageids_list, tasks, i, closed, terminated, poolVars,
                   deadline, tables>>

\* Lines 165-167.
MakeList ==
    /\ pc = "list"
    /\ tasks' = << >>
    /\ pageids_list' = ListOf(Cardinality(pageids), order)
    /\ i' = 0
    /\ pc' = "loop"
    /\ UNCHANGED <<anchorVars, inputVars, history, closed, terminated, poolVars, deadline, wk, tables>>

\* (mutant) a slice one element too long
SliceTooLong(list, from) == SubSeq(list, from + 1, Min(from + batch_size + 1, Len(list)))

\* pageids_list[i:i+batch_size]
Slice(list, from) == SubSeq(list, from + 1, Min(from + batch_size, Len(list)))

\* (mutant) the loop steps by one less than the length of a batch
LoopOverlaps ==
    /\ pc = "loop"
    /\ IF i < Cardinality(pageids)
       THEN /\ tasks' = Append(tasks, Slice(pageids_list, i))
            /\ i' = i + batch_size - 1
            /\ pc' = pc
       ELSE /\ pc' = "map_async"
            /\ UNCHANGED <<tasks, i>>
    /\ UNCHANGED <<anchorVars, inputVars, history, pageids_list, closed, terminated, poolVars,
                   deadline, wk, tables>>

\* One turn of `for i in range(0, len(pageids), batch_size)`, or its end:
\* lines 168-169.
Loop ==
    /\ pc = "loop"
    /\ IF i < Cardinality(pageids)
       THEN /\ tasks' = Append(tasks, Slice(pageids_list, i))
            /\ i' = i + batch_size
            /\ pc' = pc
       ELSE /\ pc' = "map_async"
            /\ UNCHANGED <<tasks, i>>
    /\ UNCHANGED <<anchorVars, inputVars, history, pageids_list, closed, terminated, poolVars, deadline,
                   wk, tables>>

\* map_async's chunksize for n tasks: divmod(n, len(pool) * 4), one more
\* when there is a remainder, 0 for no task.
ChunkSize(n) ==
    IF n = 0 THEN 0
    ELSE (n \div (nprocs * 4)) + (IF n % (nprocs * 4) # 0 THEN 1 ELSE 0)

\* The chunks map_async cuts n tasks into, each the sequence of the indices
\* in `tasks` of its batches: a chunk is what one worker is handed at a time
\* (mapstar maps work over it).
Chunks(n) ==
    LET c == ChunkSize(n)
        m == IF c = 0 THEN 0 ELSE (n \div c) + (IF n % c # 0 THEN 1 ELSE 0)
    IN  [k \in 1..m |-> [j \in 1..(Min(k * c, n) - (k - 1) * c) |-> (k - 1) * c + j]]

\* result = pool.map_async(work, tasks): line 171.  The MapResult of no
\* task is ready at once.
MapAsync ==
    /\ pc = "map_async"
    /\ taskq' = Chunks(Len(tasks))
    /\ number_left' = Len(Chunks(Len(tasks)))
    /\ ready' = (Len(tasks) = 0)
    /\ success' = TRUE
    /\ runs' = [b \in 1..Len(tasks) |-> 0]
    /\ pc' = "close"
    /\ UNCHANGED <<anchorVars, inputVars, pageids_list, tasks, i, closed, terminated, deadline,
                   wk, tables, reraised, lost, unwritten>>

\* pool.close(): line 172.
Close ==
    /\ pc = "close"
    /\ closed' = TRUE
    /\ pc' = "wait"
    /\ UNCHANGED <<anchorVars, inputVars, history, pageids_list, tasks, i, terminated, poolVars, deadline,
                   wk, tables>>

\* `timeout` seconds pass after result.wait(timeout) was called.
DeadlineElapses ==
    /\ pc \in {"wait", "join"}
    /\ ~deadline
    /\ deadline' = TRUE
    /\ UNCHANGED <<anchorVars, inputVars, history, mainVars, poolVars, wk, tables>>

\* result.wait(timeout) returns: line 174.  It returns when the result is
\* ready or the timeout has passed.
WaitReturns ==
    /\ pc = "wait"
    /\ ready \/ deadline
    /\ pc' = "check"
    /\ UNCHANGED <<anchorVars, inputVars, history, pageids_list, tasks, i, closed, terminated, poolVars,
                   deadline, wk, tables>>

\* (mutant) the pool is terminated whatever result.ready() says
CheckReadyNot ==
    /\ pc = "check"
    /\ pc' = "terminate"
    /\ UNCHANGED <<anchorVars, inputVars, history, pageids_list, tasks, i, closed, terminated, poolVars,
                   deadline, wk, tables>>

\* if not result.ready(): line 175.
CheckReady ==
    /\ pc = "check"
    /\ pc' = IF ~ready THEN "terminate" ELSE "join"
    /\ UNCHANGED <<anchorVars, inputVars, history, pageids_list, tasks, i, closed, terminated, poolVars,
                   deadline, wk, tables>>

\* A process that has ended, or was never started.
Gone(w) == wk[w].pc \in {"none", "exited", "killed", "dead"}

\* pool.terminate(): lines 176-177.  Every process still alive is killed
\* where it stands; the tasks not yet taken are dropped.
Terminate ==
    /\ pc = "terminate"
    /\ terminated' = TRUE
    /\ wk' = [w \in Procs |->
                IF Gone(w) THEN wk[w]
                ELSE WorkerAt("killed", wk[w].exception_count, << >>, << >>, 0)]
    /\ taskq' = << >>
    /\ pc' = "join"
    /\ UNCHANGED <<anchorVars, inputVars, history, pageids_list, tasks, i, closed, number_left, ready,
                   success, deadline, tables>>

\* (mutant) parse_live returns without waiting for the processes
JoinNoWait ==
    /\ pc = "join"
    /\ pc' = "log"
    /\ UNCHANGED <<anchorVars, inputVars, history, pageids_list, tasks, i, closed, terminated, poolVars,
                   deadline, wk, tables>>

\* pool.join() returns: line 178.  It waits for every worker process to end.
Join ==
    /\ pc = "join"
    /\ \A w \in Procs : Gone(w)
    /\ pc' = "log"
    /\ UNCHANGED <<anchorVars, inputVars, history, pageids_list, tasks, i, closed, terminated, poolVars,
                   deadline, wk, tables>>

\* log.info('all done.'): line 187.
LogDone ==
    /\ pc = "log"
    /\ pc' = "done"
    /\ UNCHANGED <<anchorVars, inputVars, history, pageids_list, tasks, i, closed, terminated, poolVars,
                   deadline, wk, tables>>

-----------------------------------------------------------------------------
(* The worker processes *)

Idle(count) == WorkerAt("idle", count, << >>, << >>, 0)

\* MapResult._set for a chunk's result.  A chunk that ended without an
\* exception counts down number_left, the last makes the result ready; a
\* chunk that ended with an exception makes the result ready at once, as
\* failed.  Once ready the job is out of the pool's cache and further
\* results are dropped.
ChunkResult(ok) ==
    /\ number_left' = IF ok /\ ~ready THEN number_left - 1 ELSE number_left
    /\ ready' = (ready \/ ~ok \/ number_left = 1)
    /\ success' = (success /\ (ok \/ ready))
    /\ UNCHANGED taskq

\* (mutant) the wrapper counts consecutive failures: a call that returns sets
\* the counter to 0
ReturnedResets(w, count) ==
    LET rest == Tail(wk[w].chunk)
        c == IF count = wk[w].exception_count THEN 0 ELSE count
    IN  IF rest # << >>
        THEN /\ wk' = [wk EXCEPT ![w] = WorkerAt("work", c, rest, << >>, 0)]
             /\ UNCHANGED poolVars
        ELSE /\ wk' = [wk EXCEPT ![w] = Idle(c)]
             /\ ChunkResult(TRUE)

\* The wrapped work returned (None) for the batch at the head of w's chunk,
\* with self.exception_count = count: mapstar goes on to the chunk's next
\* batch, or the chunk is done and its result is sent.
Returned(w, count) ==
    LET rest == Tail(wk[w].chunk)
    IN  IF rest # << >>
        THEN /\ wk' = [wk EXCEPT ![w] = WorkerAt("work", count, rest, << >>, 0)]
             /\ UNCHANGED poolVars
        ELSE /\ wk' = [wk EXCEPT ![w] = Idle(count)]
             /\ ChunkResult(TRUE)

\* (mutant) an exception of the write loop is caught inside the loop, which
\* goes on with the next entry of rows
RaisedInLoopGoesOn(w) ==
    LET count == wk[w].exception_count + 1
    IN  IF wk[w].pc \in {"article", "snippets"} /\ wk[w].r < Len(wk[w].rows)
        THEN /\ wk' = [wk EXCEPT ![w].pc = "article", ![w].r = wk[w].r + 1,
                                 ![w].exception_count = count]
             /\ UNCHANGED <<poolVars, reraised>>
        ELSE IF count > MAX_EXCEPTIONS_PER_SUBPROCESS
        THEN /\ wk' = [wk EXCEPT ![w] = Idle(count)]
             /\ ChunkResult(FALSE)
             /\ reraised' = [reraised EXCEPT ![w] = @ + 1]
        ELSE /\ Returned(w, count)
             /\ UNCHANGED reraised

\* (mutant) work runs without the wrapper: whatever it raises leaves the
\* task and brings the pool down
RaisedKillsPool(w) ==
    LET count == wk[w].exception_count + 1
    IN  /\ wk' = [v \in Procs |->
                   IF v = w THEN Idle(count)
                   ELSE IF Gone(v) THEN wk[v]
                   ELSE WorkerAt("killed", wk[v].exception_count, << >>, << >>, 0)]
        /\ ChunkResult(FALSE)
        /\ reraised' = IF count > MAX_EXCEPTIONS_PER_SUBPROCESS
                       THEN [reraised EXCEPT ![w] = @ + 1]
                       ELSE reraised

\* with_max_exceptions' except branch, lines 121-125: the exception is
\* counted; up to MAX_EXCEPTIONS_PER_SUBPROCESS of them the wrapper returns
\* None, past that it re-raises.  The pool's worker loop catches what a task
\* raises and sends it as the chunk's result: the rest of the chunk is not
\* run, and the process goes on to take the next chunk.
Raised(w) ==
    LET count == wk[w].exception_count + 1
    IN  IF count > MAX_EXCEPTIONS_PER_SUBPROCESS
        THEN /\ wk' = [wk EXCEPT ![w] = Idle(count)]
             /\ ChunkResult(FALSE)
             /\ reraised' = [reraised EXCEPT ![w] = @ + 1]
        ELSE /\ Returned(w, count)
             /\ UNCHANGED reraised

\* initializer: lines 107-114.
Initializer(w) ==
    /\ wk[w].pc = "init"
    /\ wk' = [wk EXCEPT ![w] = Idle(0)]
    /\ UNCHANGED <<anchorVars, inputVars, history, mainVars, poolVars, deadline, tables>>

\* (mutant) a process whose initializer raised goes on to take tasks
InitializerFailsRunsOn(w) ==
    /\ wk[w].pc = "init"
    /\ wk' = [wk EXCEPT ![w] = WorkerAt("idle", -1, << >>, << >>, 0)]
    /\ UNCHANGED <<anchorVars, inputVars, history, mainVars, poolVars, deadline, tables>>

\* initializer raises (the wiki or the database cannot be reached): the
\* process ends before it takes a task.
InitializerFails(w) ==
    /\ wk[w].pc = "init"
    /\ wk' = [wk EXCEPT ![w] = WorkerAt("dead", -1, << >>, << >>, 0)]
    /\ UNCHANGED <<anchorVars, inputVars, history, mainVars, poolVars, deadline, tables>>

\* The pool's worker handler replaces a process that ended by a new one,
\* which runs initializer, as long as the pool is running or its job is not
\* done.
Respawn(w) ==
    /\ wk[w].pc = "dead"
    /\ ~terminated
    /\ ~closed \/ ~ready
    /\ wk' = [wk EXCEPT ![w] = WorkerAt("init", -1, << >>, << >>, 0)]
    /\ UNCHANGED <<anchorVars, inputVars, history, mainVars, poolVars, deadline, tables>>

\* (mutant) the chunk taken stays in the queue
TakeChunkLeaves(w) ==
    /\ wk[w].pc = "idle"
    /\ taskq # << >>
    /\ wk' = [wk EXCEPT ![w] = WorkerAt("work", wk[w].exception_count, Head(taskq),
                                         << >>, 0)]
    /\ UNCHANGED <<anchorVars, inputVars, history, mainVars, poolVars, deadline, tables>>

\* An idle process takes the next chunk off the task queue.
TakeChunk(w) ==
    /\ wk[w].pc = "idle"
    /\ taskq # << >>
    /\ wk' = [wk EXCEPT ![w] = WorkerAt("work", wk[w].exception_count, Head(taskq),
                                         << >>, 0)]
    /\ taskq' = Tail(taskq)
    /\ UNCHANGED <<anchorVars, inputVars, history, mainVars, number_left, ready, success, deadline, tables>>

\* (mutant) the rows of a page are written as soon as they are extracted
WorkWritesAsItGoes(w) ==
    /\ wk[w].pc = "work"
    /\ LET batch == tasks[Head(wk[w].chunk)]
       IN  \E remote \in Wikis(batch) :
             /\ skipped' = skipped \cup {p \in Range(batch) : Barren(remote[p])}
             /\ \E results \in QueryResults(batch, remote) :
                  IF ExtractRaises(results, remote)
                  THEN /\ Raised(w)
                       /\ lost' = lost \cup ExtractedBeforeRaise(results, remote)
                       /\ articles' = articles \cup
                            {ArticleRow(p) : p \in ExtractedBeforeRaise(results, remote)}
                       /\ UNCHANGED snippets
                  ELSE /\ UNCHANGED <<reraised, lost, articles, snippets>>
                       /\ IF Rows(results, remote) = << >>
                          THEN Returned(w, wk[w].exception_count)
                          ELSE /\ wk' = [wk EXCEPT ![w] =
                                           WorkerAt("article", wk[w].exception_count,
                                                    wk[w].chunk, Rows(results, remote), 1)]
                               /\ UNCHANGED poolVars
    /\ runs' = [runs EXCEPT ![Head(wk[w].chunk)] = @ + 1]
    /\ UNCHANGED <<anchorVars, inputVars, mainVars, deadline, unwritten>>

\* The loop of lines 132-147 for the batch at the head of the chunk, when
\* extract_snippets raises for one of the results.
ExtractFails(w) ==
    /\ wk[w].pc = "work"
    /\ LET batch == tasks[Head(wk[w].chunk)]
       IN  \E remote \in Wikis(batch) :
             /\ skipped' = skipped \cup {p \in Range(batch) : Barren(remote[p])}
             /\ \E results \in QueryResults(batch, remote) :
                  /\ ExtractRaises(results, remote)
                  /\ Raised(w)
                  /\ lost' = lost \cup ExtractedBeforeRaise(results, remote)
    /\ runs' = [runs EXCEPT ![Head(wk[w].chunk)] = @ + 1]
    /\ UNCHANGED <<anchorVars, inputVars, mainVars, deadline, articles, snippets, unwritten>>

\* The loop of lines 132-147 for the batch at the head of the chunk, when
\* it ends: work returns if rows is empty, and begins its write loop if not.
WorkReturns(w) ==
    /\ wk[w].pc = "work"
    /\ LET batch == tasks[Head(wk[w].chunk)]
       IN  \E remote \in Wikis(batch) :
             /\ skipped' = skipped \cup {p \in Range(batch) : Barren(remote[p])}
             /\ \E results \in QueryResults(batch, remote) :
                  /\ ~ExtractRaises(results, remote)
                  /\ IF Rows(results, remote) = << >>
                     THEN Returned(w, wk[w].exception_count)
                     ELSE /\ wk' = [wk EXCEPT ![w] =
                                      WorkerAt("article", wk[w].exception_count,
                                               wk[w].chunk, Rows(results, remote), 1)]
                          /\ UNCHANGED poolVars
    /\ runs' = [runs EXCEPT ![Head(wk[w].chunk)] = @ + 1]
    /\ UNCHANGED <<anchorVars, inputVars, mainVars, deadline, articles, snippets, unwritten,
                   reraised, lost>>

\* work up to its write loop, lines 130-147, for the batch at the head of the
\* chunk: the pages are fetched and their snippets extracted.
Work(w) ==
    \/ ExtractFails(w)
    \/ WorkReturns(w)

\* The request to the API raises (line 74).  query_pageids is a generator:
\* the request is made, and continued, while the loop of lines 132-147 runs,
\* so the first k results may have been extracted when it raises.
FetchFails(w) ==
    /\ wk[w].pc = "work"
    /\ Raised(w)
    /\ LET batch == tasks[Head(wk[w].chunk)]
       IN  \E remote \in Wikis(batch) : \E results \in QueryResults(batch, remote) :
             \E k \in 0..Len(results) :
                /\ ~ExtractRaises(SubSeq(results, 1, k), remote)
                /\ lost' = lost \cup ExtractedBeforeRaise(SubSeq(results, 1, k), remote)
    /\ runs' = [runs EXCEPT ![Head(wk[w].chunk)] = @ + 1]
    /\ UNCHANGED <<anchorVars, inputVars, mainVars, deadline, tables, unwritten>>

\* The schema of the scratch database: articles(pageid PRIMARY KEY, ...).
\* A row with the key of `row` is stored in the table.
ArticleKeyTaken(table, row) == \E a \in table : a.pageid = row.pageid

\* The schema of the scratch database: snippets(id PRIMARY KEY, ...).
SnippetKeyTaken(table, row) == \E x \in table : x.id = row.id

\* The pages of the entries of rows behind the one the write loop is at,
\* those that were not written as an earlier entry.
NotYetWritten(w) ==
    {wk[w].rows[k].article.pageid : k \in (wk[w].r + 1)..Len(wk[w].rows)}
    \ {wk[w].rows[k].article.pageid : k \in 1..wk[w].r}

\* (mutant) the article's row is not written
InsertArticleLost(w) ==
    /\ wk[w].pc = "article"
    /\ wk' = [wk EXCEPT ![w].pc = "snippets"]
    /\ UNCHANGED <<anchorVars, inputVars, history, mainVars, poolVars, deadline, tables>>

\* (mutant) INSERT IGNORE INTO articles: a row of that pageid is skipped
InsertArticleIgnore(w) ==
    /\ wk[w].pc = "article"
    /\ articles' = IF \E a \in articles : a.pageid = wk[w].rows[wk[w].r].article.pageid
                   THEN articles
                   ELSE articles \cup {wk[w].rows[wk[w].r].article}
    /\ wk' = [wk EXCEPT ![w].pc = "snippets"]
    /\ UNCHANGED <<anchorVars, inputVars, history, mainVars, poolVars, deadline, snippets, skipped>>

\* INSERT INTO articles, lines 150-151, for rows[r]: a row of that pageid
\* (the primary key) makes it raise.
InsertArticle(w) ==
    /\ wk[w].pc = "article"
    /\ LET row == wk[w].rows[wk[w].r].article
       IN  IF ArticleKeyTaken(articles, row)
           THEN /\ Raised(w)
                /\ unwritten' = unwritten \cup NotYetWritten(w)
                /\ UNCHANGED articles
           ELSE /\ articles' = articles \cup {row}
                /\ wk' = [wk EXCEPT ![w].pc = "snippets"]
                /\ UNCHANGED <<poolVars, reraised, unwritten>>
    /\ UNCHANGED <<anchorVars, inputVars, mainVars, deadline, snippets, skipped, runs, lost>>

\* (mutant) the statement stops at the first row whose id is in the table
RECURSIVE InsertUntilDuplicate(_, _)
InsertUntilDuplicate(table, rows) ==
    IF rows = << >> THEN table
    ELSE IF \E x \in table : x.id = Head(rows).id THEN table
         ELSE InsertUntilDuplicate(table \cup {Head(rows)}, Tail(rows))

\* (mutant) REPLACE of a sequence of rows: a row takes the place of the row
\* of its id
RECURSIVE InsertReplace(_, _)
InsertReplace(table, rows) ==
    IF rows = << >> THEN table
    ELSE InsertReplace(
            {x \in table : x.id # Head(rows).id} \cup {Head(rows)},
            Tail(rows))

\* INSERT IGNORE of a sequence of rows: a row whose id (the primary key) is
\* in the table is skipped.
RECURSIVE InsertIgnore(_, _)
InsertIgnore(table, rows) ==
    IF rows = << >> THEN table
    ELSE InsertIgnore(
            IF SnippetKeyTaken(table, Head(rows)) THEN table
            ELSE table \cup {Head(rows)},
            Tail(rows))

\* (mutant) a plain INSERT: a row whose id is in the table makes it raise
InsertSnippetsStrict(w) ==
    /\ wk[w].pc = "snippets"
    /\ IF \E k \in 1..Len(wk[w].rows[wk[w].r].snippets) :
            \/ wk[w].rows[wk[w].r].snippets[k].id \in {x.id : x \in snippets}
            \/ \E j \in 1..(k - 1) :
                wk[w].rows[wk[w].r].snippets[j].id = wk[w].rows[wk[w].r].snippets[k].id
       THEN /\ Raised(w)
            /\ UNCHANGED snippets
       ELSE /\ snippets' = snippets \cup Range(wk[w].rows[wk[w].r].snippets)
            /\ UNCHANGED reraised
            /\ IF wk[w].r < Len(wk[w].rows)
               THEN /\ wk' = [wk EXCEPT ![w].pc = "article", ![w].r = wk[w].r + 1]
                    /\ UNCHANGED poolVars
               ELSE Returned(w, wk[w].exception_count)
    /\ UNCHANGED <<anchorVars, inputVars, mainVars, deadline, articles, skipped, runs, lost, unwritten>>

\* INSERT IGNORE INTO snippets, lines 152-154, for rows[r]; then the next
\* turn of `for r in rows`, or work's return.
InsertSnippets(w) ==
    /\ wk[w].pc = "snippets"
    /\ snippets' = InsertIgnore(snippets, wk[w].rows[wk[w].r].snippets)
    /\ IF wk[w].r < Len(wk[w].rows)
       THEN /\ wk' = [wk EXCEPT ![w].pc = "article", ![w].r = wk[w].r + 1]
            /\ UNCHANGED poolVars
       ELSE Returned(w, wk[w].exception_count)
    /\ UNCHANGED <<anchorVars, inputVars, history, mainVars, deadline, articles, skipped>>

\* execute_with_retry raises: the database stays unreachable through its
\* retries.
StorageFails(w) ==
    /\ wk[w].pc \in {"article", "snippets"}
    /\ Raised(w)
    /\ unwritten' = unwritten \cup NotYetWritten(w)
    /\ UNCHANGED <<anchorVars, inputVars, mainVars, deadline, tables, runs, lost>>

\* A process with no task to take ends when the pool was closed and its job
\* is done: the pool then puts one end marker per process behind the tasks.
WorkerExit(w) ==
    /\ wk[w].pc = "idle"
    /\ taskq = << >>
    /\ closed /\ ready
    /\ wk' = [wk EXCEPT ![w] = WorkerAt("exited", wk[w].exception_count, << >>, << >>, 0)]
    /\ UNCHANGED <<anchorVars, inputVars, history, mainVars, poolVars, deadline, tables>>

-----------------------------------------------------------------------------
(* The specifications *)

MainNext ==
    \/ ResetScratch
    \/ CreatePool
    \/ MakeList
    \/ Loop
    \/ MapAsync
    \/ Close
    \/ WaitReturns
    \/ CheckReady
    \/ Terminate
    \/ Join
    \/ LogDone

WorkerNext(w) ==
    \/ Initializer(w)
    \/ InitializerFails(w)
    \/ Respawn(w)
    \/ TakeChunk(w)
    \/ Work(w)
    \/ FetchFails(w)
    \/ InsertArticle(w)
    \/ InsertSnippets(w)
    \/ StorageFails(w)
    \/ WorkerExit(w)

Next ==
    \/ MainNext
    \/ DeadlineElapses
    \/ \E w \in Procs : WorkerNext(w)

Spec == Init /\ [][Next]_vars

\* The program with a finite timeout, scheduled fairly: the main process
\* takes its next step when it can, the timeout passes, and every worker
\* process takes its next step when it can (no fetch and no write blocks for
\* ever).
SpecFair ==
    /\ Spec
    /\ WF_vars(MainNext)
    /\ WF_vars(DeadlineElapses)
    /\ \A w \in Procs : WF_vars(WorkerNext(w))

\* The program with a fetch client that yields every page of a batch at
\* most once.
InitOnce == InitFor(MainInputs, FALSE)

SpecOnce == InitOnce /\ [][Next]_vars

\* The program with a finite timeout, where a worker may block for ever in
\* its input and output (the initializer's connections, the fetch, the
\* writes): the main process takes its next step when it can, the timeout
\* passes, and the pool's own steps (handing out a chunk, replacing a dead
\* process, ending an idle process after close) are taken when they can be.
SpecStall ==
    /\ Spec
    /\ WF_vars(MainNext)
    /\ WF_vars(DeadlineElapses)
    /\ \A w \in Procs : WF_vars(TakeChunk(w) \/ Respawn(w) \/ WorkerExit(w))

\* The characters of the section names given to section_name_to_anchor on
\* its own: a letter, the space, ':', '%', the characters of '3A', and two
\* characters urllib.quote escapes, one of one byte and one of two.
Alphabet == {"a", " ", ":", "%", "3", "A", "/", "e-acute"}

\* The section names: every string over Alphabet of at most MaxLen
\* characters.
SectionNames == UNION {[1..n -> Alphabet] : n \in 0..MaxLen}

\* A call of section_name_to_anchor on a section name of SectionNames.
InitAnchor ==
    /\ pc = "anchor"
    /\ section \in SectionNames
    /\ anchor = << >>
    /\ pageids = {} /\ order = "fwd" /\ nprocs = 1 /\ live = {} /\ repeats = FALSE
    /\ pageids_list = << >> /\ tasks = << >> /\ i = 0
    /\ taskq = << >> /\ number_left = 0 /\ ready = FALSE /\ success = TRUE
    /\ closed = FALSE /\ terminated = FALSE /\ deadline = FALSE
    /\ wk = [w \in Procs |-> WorkerAt("none", -1, << >>, << >>, 0)]
    /\ articles = {} /\ snippets = {} /\ skipped = {}
    /\ runs = << >> /\ reraised = [w \in Procs |-> 0] /\ lost = {} /\ unwritten = {}

\* section_name_to_anchor(section) returns: lines 53-62.
Anchor ==
    /\ pc = "anchor"
    /\ anchor' = section_name_to_anchor(section)
    /\ pc' = "anchored"
    /\ UNCHANGED <<section, inputVars, history, pageids_list, tasks, i, closed, terminated,
                   poolVars, deadline, wk, tables>>

NextAnchor == Anchor

SpecAnchor == InitAnchor /\ [][NextAnchor]_vars

\* parse_live up to its call of map_async, for the inputs of BatchInputs.
NextBatch ==
    \/ ResetScratch
    \/ CreatePool
    \/ MakeList
    \/ Loop

SpecBatch == InitBatch /\ [][NextBatch]_vars

-----------------------------------------------------------------------------
(* C8 *)

\* The places (k, j) of the task list that hold page identifier p.
PlacesOf(p) ==
    {x \in {<<k, j>> : k \in 1..Len(tasks), j \in 1..batch_size + 1} :
        x[2] <= Len(tasks[x[1]]) /\ tasks[x[1]][x[2]] = p}

\* C8: when the loop of parse_live has ended, every identifier of the input
\* set is at exactly one place of exactly one batch, the batches hold nothing
\* but identifiers of the input set, no batch is empty and no batch holds
\* more than 32 identifiers.
C8_BatchesPartitionInput ==
    pc = "map_async" =>
        /\ \A p \in pageids : Cardinality(PlacesOf(p)) = 1
        /\ \A k \in 1..Len(tasks) :
            /\ Range(tasks[k]) \subseteq pageids
            /\ Len(tasks[k]) >= 1
            /\ Len(tasks[k]) <= 32

\* Three batches were made, the last one partial, from a list that is not in
\* ascending order.
C8_Witness ==
    /\ pc = "map_async"
    /\ Len(tasks) = 3
    /\ Len(tasks[3]) < batch_size
    /\ order = "rot"

-----------------------------------------------------------------------------
(* C1 *)

\* Every row of `snippets` has the pageid of a row of `articles`.
SnippetsHaveArticle == \A s \in snippets : \E a \in articles : a.pageid = s.pageid

\* C1: in every state every row of `snippets` has the pageid of a row of
\* `articles`, and every step that adds a row to `snippets` is taken in a
\* state where the row of `articles` with that pageid is already stored: the
\* Article is inserted before the page's Fragments.
C1_SnippetsHaveArticle ==
    /\ []SnippetsHaveArticle
    /\ [][\A s \in snippets' \ snippets : \E a \in articles : a.pageid = s.pageid]_vars

\* The pool was terminated while a worker stood between a page's Article
\* insert and its Fragment inserts, after another page had been written.
C1_Witness ==
    /\ terminated
    /\ snippets # {}
    /\ \E a \in articles : \A s \in snippets : s.pageid # a.pageid
    /\ \E w \in Procs : wk[w].pc = "killed"

-----------------------------------------------------------------------------
(* C2 *)

\* The entry of rows worker w is writing.
Current(w) == wk[w].rows[wk[w].r]

Ids(table) == {x.id : x \in table}

\* C2 as claimed: when a worker has written a page (its INSERT IGNORE step
\* is done), `articles` holds exactly one row of the page and `snippets`
\* holds as many rows of the page's id as the extractor gave fragments.
C2_OneRowPerFragment ==
    [][\A w \in Procs : InsertSnippets(w) =>
        LET p == Current(w).article.pageid
        IN  /\ Cardinality({a \in articles' : a.pageid = p}) = 1
            /\ Cardinality({x \in snippets' : x.pageid = p}) = Len(Current(w).snippets)
      ]_vars

\* C2, amended: when a worker has written a page, `articles` holds exactly
\* one row of the page; every row stored before is still stored; for every
\* extracted fragment `snippets` holds exactly one row with the fragment's
\* id, and that row is the fragment's own (with the page's id) when no row
\* of that id was stored before the step and no earlier fragment of the
\* page has that id; the rows of the page's id are as many as the distinct
\* ids of its fragments that were not stored before.
C2_OneRowPerFragmentId ==
    [][\A w \in Procs : InsertSnippets(w) =>
        LET p  == Current(w).article.pageid
            fs == Current(w).snippets
        IN  /\ Cardinality({a \in articles' : a.pageid = p}) = 1
            /\ snippets \subseteq snippets'
            /\ \A k \in 1..Len(fs) :
                /\ Cardinality({x \in snippets' : x.id = fs[k].id}) = 1
                /\ (fs[k].id \notin Ids(snippets) /\ \A j \in 1..(k - 1) : fs[j].id # fs[k].id)
                      => fs[k] \in snippets'
            /\ Cardinality({x \in snippets' \ snippets : x.pageid = p})
                  = Cardinality({fs[k].id : k \in 1..Len(fs)} \ Ids(snippets))
            /\ \A x \in snippets' \ snippets : x.pageid = p
      ]_vars

\* A worker has written the first page of its rows, a page with two
\* fragments of one text: one row stands for both.
C2_Witness ==
    \E w \in Procs :
        /\ wk[w].pc = "article"
        /\ wk[w].r = 2
        /\ LET first == wk[w].rows[1]
           IN  /\ Len(first.snippets) = 2
               /\ first.snippets[1].id = first.snippets[2].id
               /\ Cardinality({x \in snippets : x.pageid = first.article.pageid}) = 1

-----------------------------------------------------------------------------
(* C3 *)

\* C3: no row of `articles` and no row of `snippets` has the pageid of a
\* page that work's first loop met without a title, without a text or
\* without a fragment.
C3_NothingForSkippedPages ==
    \A p \in skipped :
        /\ \A a \in articles : a.pageid # p
        /\ \A x \in snippets : x.pageid # p

\* The run is over; of the two pages of a batch one was skipped though it
\* has a title and a text, and the other was written.
C3_Witness ==
    /\ pc = "done"
    /\ 2 \in skipped
    /\ 2 \in live
    /\ \E a \in articles : a.pageid = 1
    /\ \E x \in snippets : x.pageid = 1

-----------------------------------------------------------------------------
(* C9 *)

\* Worker w is about to insert a fragment whose id is in `snippets`.
InsertsStoredId(w) ==
    /\ wk[w].pc = "snippets"
    /\ \E k \in 1..Len(Current(w).snippets) : Current(w).snippets[k].id \in Ids(snippets)

\* C9: no two rows of `snippets` have one id; and a worker's INSERT IGNORE
\* step for fragments of which one has an id that is already stored leaves
\* every stored row as it is, adds no second row of that id, does not count
\* an exception and goes on with the batch (the next page of rows, or work's
\* return).
C9_DuplicateFragmentIgnored ==
    /\ [](\A x, y \in snippets : x.id = y.id => x = y)
    /\ [][\A w \in Procs : (InsertSnippets(w) /\ InsertsStoredId(w)) =>
            /\ snippets \subseteq snippets'
            /\ \A k \in 1..Len(Current(w).snippets) :
                Current(w).snippets[k].id \in Ids(snippets) =>
                    {x \in snippets' : x.id = Current(w).snippets[k].id}
                        = {x \in snippets : x.id = Current(w).snippets[k].id}
            /\ wk'[w].exception_count = wk[w].exception_count
            /\ IF wk[w].r < Len(wk[w].rows)
               THEN wk'[w].pc = "article" /\ wk'[w].r = wk[w].r + 1
               ELSE wk'[w].pc \in {"idle", "work"}
            /\ success' = success
         ]_vars

\* A worker with no exception counted has passed its INSERT IGNORE for a
\* page whose only fragment has the id of a row another page stored: the
\* page has its Article and no Fragment row, and the worker is at its next
\* page.
C9_Witness ==
    \E w \in Procs :
        /\ wk[w].pc = "article"
        /\ wk[w].r = 2
        /\ wk[w].exception_count = 0
        /\ LET first == wk[w].rows[1]
           IN  /\ first.article \in articles
               /\ \A x \in snippets : x.pageid # first.article.pageid
               /\ \E x \in snippets : x.id = first.snippets[1].id

-----------------------------------------------------------------------------
(* C10 *)

\* Worker w is about to insert an Article whose pageid is in `articles`.
InsertsStoredPageid(w) ==
    /\ wk[w].pc = "article"
    /\ \E a \in articles : a.pageid = Current(w).article.pageid

\* C10: a worker's INSERT INTO articles step for a pageid that is already
\* stored leaves `articles` and `snippets` as they are, counts one exception
\* and ends work for the batch: the worker holds no rows any more.
C10_DuplicateArticleFails ==
    [][\A w \in Procs : (InsertArticle(w) /\ InsertsStoredPageid(w)) =>
        /\ articles' = articles
        /\ snippets' = snippets
        /\ wk'[w].exception_count = wk[w].exception_count + 1
        /\ wk'[w].rows = << >>
        /\ wk'[w].pc \in {"idle", "work"}
        /\ wk'[w].chunk = Tail(wk[w].chunk) \/ wk'[w].chunk = << >>
      ]_vars

\* A worker has written a page and is about to insert the Article of the
\* same page again, the page being twice in its rows.
C10_Witness ==
    \E w \in Procs :
        /\ InsertsStoredPageid(w)
        /\ wk[w].r = 2
        /\ wk[w].rows[1].article = wk[w].rows[2].article
        /\ \E x \in snippets : x.pageid = Current(w).article.pageid

-----------------------------------------------------------------------------
(* C4 *)

\* Worker w is in work for a batch.
InWork(w) == wk[w].pc \in {"work", "article", "snippets"}

\* C4 as claimed: a worker that has counted more than
\* MAX_EXCEPTIONS_PER_SUBPROCESS failures has terminated and processes no
\* batch.
C4_SixthFailureEndsWorker ==
    \A w \in Procs :
        wk[w].exception_count > MAX_EXCEPTIONS_PER_SUBPROCESS => ~InWork(w)

-----------------------------------------------------------------------------
(* C5 *)

\* Some batch is outstanding: not yet taken, or being processed.
Outstanding == taskq # << >> \/ \E w \in Procs : InWork(w)

\* C5 as claimed: once the deadline has passed with a batch outstanding,
\* parse_live is not in pool.join() waiting for the outstanding batches: it
\* has terminated the pool.
C5_DeadlineTerminates ==
    (deadline /\ Outstanding /\ pc = "join") => terminated

-----------------------------------------------------------------------------
(* C6 *)

\* C6: parse_live goes from its check of result.ready() to pool.terminate()
\* exactly when the result is not ready, and then the deadline has passed
\* and a batch is outstanding; nothing but that step leads to
\* pool.terminate(); and when parse_live has returned without terminating
\* the pool, no process was killed, no batch is left in the queue and none
\* was left half processed.
C6_TerminateOnlyIfNotReady ==
    /\ [][(pc = "check" /\ pc' # pc) =>
            /\ pc' = "terminate" <=> ~ready
            /\ pc' = "terminate" => (deadline /\ Outstanding)
            /\ pc' # "terminate" => pc' = "join"
         ]_vars
    /\ [][(pc' = "terminate" /\ pc # "terminate") => pc = "check"]_vars
    /\ [][(terminated' /\ ~terminated) => pc = "terminate"]_vars
    /\ []((pc \in {"log", "done"} /\ ~terminated) =>
            /\ ~Outstanding
            /\ \A w \in Procs : w <= nprocs => wk[w].pc \in {"exited", "dead"})

\* parse_live has returned without terminating the pool although the
\* deadline passed: both batches were processed and rows were written.
C6_Witness ==
    /\ pc = "done"
    /\ ~terminated
    /\ deadline
    /\ success
    /\ Len(tasks) = 2
    /\ snippets # {}

-----------------------------------------------------------------------------
(* C7 *)

\* C7: when parse_live has returned (and when 'all done.' is logged) every
\* worker process has ended, and from then on no step changes `articles` or
\* `snippets`.
C7_DoneAfterWorkersExit ==
    /\ [](pc \in {"log", "done"} => \A w \in Procs : Gone(w))
    /\ [][(pc \in {"log", "done"}) => UNCHANGED <<articles, snippets>>]_vars

\* 'all done.' is logged after a cancellation that killed a worker in its
\* write loop: an Article is stored without its Fragments.
C7_Witness ==
    /\ pc = "done"
    /\ terminated
    /\ \E w \in Procs : wk[w].pc = "killed"
    /\ \E a \in articles : \A x \in snippets : x.pageid # a.pageid

-----------------------------------------------------------------------------
(* C11 *)

\* Worker w counts a failed batch in this step.
Fails(w) ==
    /\ wk[w].exception_count >= 0
    /\ wk'[w].exception_count = wk[w].exception_count + 1

-----------------------------------------------------------------------------
(* C12 *)

\* What the claim says a character of a section name becomes.
AnchorOfChar(c) ==
    IF c = " " THEN <<"_">>
    ELSE IF c = ":" THEN <<":">>
    ELSE IF c \in AlwaysSafe THEN <<c>>
    ELSE Flatten([j \in 1..Len(HexBytes(c)) |-> <<".">> \o HexBytes(c)[j]])

\* C12: the anchor of a section name is the concatenation, character by
\* character, of: '_' for a space, ':' for a ':', the character itself when
\* it is unreserved, and '.' and two hexadecimal digits for each byte of any
\* other character; it holds no space and no '%'; and 'See also' gives
\* 'See_also'.
C12_AnchorEncoding ==
    /\ pc = "anchored" =>
        /\ anchor = Flatten([k \in 1..Len(section) |-> AnchorOfChar(section[k])])
        /\ \A k \in 1..Len(anchor) : anchor[k] \notin {" ", "%"}
    /\ section_name_to_anchor(<<"S", "e", "e", " ", "a", "l", "s", "o">>)
        = <<"S", "e", "e", "_", "a", "l", "s", "o">>

\* The anchor of ' :%' was computed: '_:.25'.
C12_Witness ==
    /\ pc = "anchored"
    /\ section = <<" ", ":", "%">>
    /\ anchor = <<"_", ":", ".", "2", "5">>

-----------------------------------------------------------------------------
(* C13 *)

\* No row of `articles` or `snippets` has pageid p.
NoRowOf(p) ==
    /\ \A a \in articles : a.pageid # p
    /\ \A x \in snippets : x.pageid # p

\* C13: a step in which work raises in its fetch or its extraction writes
\* nothing, and after it no row of any page of the batch is stored; and no
\* row is ever stored for a page that had been fetched and extracted, with
\* fragments, when a later page of its batch made work raise.
C13_RaiseBeforeWriteLosesBatch ==
    /\ [](\A p \in lost : NoRowOf(p))
    /\ [][\A w \in Procs : (wk[w].pc = "work" /\ Fails(w)) =>
            /\ UNCHANGED <<articles, snippets>>
            /\ \A p \in Range(tasks[Head(wk[w].chunk)]) : NoRowOf(p)]_vars

\* The job is done, without cancellation; page 1 had been extracted, with
\* fragments, when the extraction of page 2 raised, and nothing is stored.
C13_Witness ==
    /\ pc = "done"
    /\ ~terminated
    /\ lost = {1}
    /\ skipped = {}
    /\ articles = {}
    /\ snippets = {}

-----------------------------------------------------------------------------
(* C14 *)

\* The rows of entry e of rows are stored: the article's row, and for every
\* fragment a row of its id.
Stored(e) ==
    /\ \E a \in articles : a.pageid = e.article.pageid
    /\ \A k \in 1..Len(e.snippets) : \E x \in snippets : x.id = e.snippets[k].id

\* C14: a step in which the write loop of work raises, at entry r of rows,
\* changes neither table, so that the rows of the entries before r remain
\* stored and nothing is rolled back; it counts one failure; it ends work
\* for the batch; and no row is ever stored for a page whose entry came
\* after r.
C14_WriteFailureKeepsEarlierPages ==
    /\ [](\A p \in unwritten : NoRowOf(p))
    /\ [][\A w \in Procs :
            (wk[w].pc \in {"article", "snippets"}
                /\ wk'[w].exception_count # wk[w].exception_count) =>
            /\ UNCHANGED <<articles, snippets>>
            /\ \A k \in 1..(wk[w].r - 1) : Stored(wk[w].rows[k])
            /\ wk'[w].exception_count = wk[w].exception_count + 1
            /\ wk'[w].rows = << >>
            /\ wk'[w].pc \in {"work", "idle"}
            /\ NotYetWritten(w) \subseteq unwritten']_vars

\* The job is done, without cancellation; the write loop of the batch
\* (1, 2, 3) raised at page 2: the rows of page 1 are stored, page 3 has none.
C14_Witness ==
    /\ pc = "done"
    /\ ~terminated
    /\ unwritten = {3}
    /\ \E a \in articles : a.pageid = 1
    /\ \E x \in snippets : x.pageid = 1
    /\ NoRowOf(3)
    /\ wk[1].exception_count = 1

-----------------------------------------------------------------------------
(* C15 *)

\* The number of places batch b has in the pool: in the chunks of the queue
\* and in the chunks the workers hold.
Holders(b) ==
    Cardinality({k \in 1..Len(taskq) : b \in Range(taskq[k])})
    + Cardinality({w \in Procs : b \in Range(wk[w].chunk)})

\* C15: work is called at most once on every batch; a batch is in at most
\* one place of the pool (one chunk of the queue or one worker), and in none
\* once work was called on it and has ended; the queue only gets batches in
\* the one step of map_async, before the pool is closed, and otherwise only
\* loses them; and a worker that counts a failure for a batch does not keep
\* the batch.
C15_BatchRunsAtMostOnce ==
    /\ [](\A b \in DOMAIN runs :
            /\ runs[b] <= 1
            /\ Holders(b) <= 1
            /\ (Holders(b) = 1 /\ runs[b] = 1) =>
                 \E w \in Procs : InWork(w) /\ wk[w].pc # "work" /\ Head(wk[w].chunk) = b)
    /\ [][(taskq' # taskq) =>
            \/ pc = "map_async" /\ ~closed /\ taskq = << >> /\ runs = << >>
            \/ taskq' = Tail(taskq)
            \/ taskq' = << >>]_vars
    /\ [][(pc = "map_async" /\ pc' # pc) => pc' = "close"]_vars
    /\ [][(pc = "close" /\ pc' # pc) => closed']_vars
    /\ [][\A w \in Procs : (InWork(w) /\ Fails(w)) =>
            Head(wk[w].chunk) \notin Range(wk'[w].chunk)]_vars

\* The job is done, without cancellation: MaxTasks batches were dispatched
\* to two workers, work was called once on each, and both workers swallowed
\* failures.
C15_Witness ==
    /\ pc = "done"
    /\ ~terminated
    /\ Len(tasks) = MaxTasks
    /\ \A b \in DOMAIN runs : runs[b] = 1
    /\ \A w \in Procs : wk[w].exception_count \in 1..MAX_EXCEPTIONS_PER_SUBPROCESS

-----------------------------------------------------------------------------
(* C16 *)

\* The initializer of process w has completed: self.exception_count, the
\* last attribute it sets, is set.
Initialized(w) == wk[w].exception_count >= 0

\* C16: a process that waits for a task, processes a batch or has exited by
\* itself has completed its initializer; the initializer begins only in a
\* process that was just started, and ends either completed, with the
\* failure counter at 0 and the process ready for its first task, or with
\* the process dead (or killed); work begins only in a process that was
\* waiting for a task; and a process whose initializer failed takes no step
\* but to be replaced by a new, uninitialized one.
C16_InitializedBeforeWork ==
    /\ [](\A w \in Procs :
            wk[w].pc \in {"idle", "work", "article", "snippets", "exited"} => Initialized(w))
    /\ [][\A w \in Procs :
            /\ (wk[w].pc # "init" /\ wk'[w].pc = "init") =>
                    (wk[w].pc \in {"none", "dead"} /\ ~Initialized(w)')
            /\ (wk[w].pc = "init" /\ wk'[w].pc # "init") =>
                    \/ wk'[w] = Idle(0)
                    \/ wk'[w].pc \in {"dead", "killed"} /\ ~Initialized(w)'
            /\ (~InWork(w) /\ InWork(w)') => (wk[w].pc = "idle" /\ Initialized(w))
            /\ (wk[w].pc = "dead" /\ wk'[w] # wk[w]) =>
                    (wk'[w].pc = "init" /\ ~Initialized(w)')]_vars

\* The initializer of one process failed; another process, initialized, is
\* processing a batch.
C16_Witness ==
    \E w, v \in Procs :
        /\ wk[w].pc = "dead"
        /\ InWork(v)
        /\ Initialized(v)

-----------------------------------------------------------------------------
(* C17 *)

\* work was called on every batch and has ended.
AllBatchesCompleted ==
    /\ \A b \in DOMAIN runs : runs[b] = 1
    /\ ~Outstanding

\* C17 as claimed, for a finite timeout: parse_live has returned only if
\* every batch was completed or the deadline has passed, and the job is
\* eventually reported done, also when a worker blocks for ever.
C17_FiniteTimeoutReportsDone ==
    /\ []((pc \in {"log", "done"}) => (AllBatchesCompleted \/ deadline))
    /\ <>(pc = "done")

-----------------------------------------------------------------------------
(* C18 *)

\* C18: once the scratch tables were reset, every step keeps every row of
\* `articles` and of `snippets` as it is: rows are only added.
C18_TablesAppendOnly ==
    [][(pc # "reset") => (articles \subseteq articles' /\ snippets \subseteq snippets')]_vars

\* Rows are stored after a worker counted a failed batch and the pool was
\* terminated.
C18_Witness ==
    /\ terminated
    /\ articles # {}
    /\ snippets # {}
    /\ \E w \in Procs : wk[w].exception_count >= 1 /\ wk[w].pc = "killed"

-----------------------------------------------------------------------------
(* C19 *)

\* C19: in a process whose initializer has completed, exception_count never
\* goes down and goes up by one at a time; the initializer leaves it at 0; a
\* step in which work fails (its extraction raises after a page was
\* extracted, or its write loop raises) adds exactly one, and re-raises
\* exactly when the new count exceeds MAX_EXCEPTIONS_PER_SUBPROCESS; a step
\* in which work goes on to its write loop, or ends it, leaves the counter;
\* and in every state the number of re-raises of a process is the number of
\* its failures beyond the fifth.
C19_CounterIsCumulative ==
    /\ [](\A w \in Procs :
            reraised[w] = IF wk[w].exception_count > MAX_EXCEPTIONS_PER_SUBPROCESS
                          THEN wk[w].exception_count - MAX_EXCEPTIONS_PER_SUBPROCESS
                          ELSE 0)
    /\ [][\A w \in Procs : (wk'[w] # wk[w] /\ pc' = pc) =>
            /\ Initialized(w) =>
                    /\ wk'[w].exception_count >= wk[w].exception_count
                    /\ wk'[w].exception_count <= wk[w].exception_count + 1
            /\ (wk[w].pc = "init" /\ wk'[w].pc = "idle") => wk'[w].exception_count = 0
            /\ (\/ wk[w].pc = "work" /\ lost' # lost
                \/ wk[w].pc = "article" /\ wk'[w].pc # "snippets"
                \/ wk[w].pc = "snippets" /\ snippets' = snippets /\ unwritten' # unwritten
                \/ StorageFails(w)) =>
                    /\ wk'[w].exception_count = wk[w].exception_count + 1
                    /\ (reraised'[w] = reraised[w] + 1)
                         <=> (wk'[w].exception_count > MAX_EXCEPTIONS_PER_SUBPROCESS)
                    /\ reraised'[w] \in {reraised[w], reraised[w] + 1}
            /\ (\/ wk[w].pc = "work" /\ wk'[w].pc = "article"
                \/ InsertSnippets(w)) =>
                    /\ wk'[w].exception_count = wk[w].exception_count
                    /\ reraised'[w] = reraised[w]]_vars

\* The job is done: on the one process of the pool work failed for batches
\* 1 and 2, ended without an exception for batch 3, and failed for batches
\* 4 to 7; the sixth failure, that of batch 7, was re-raised.
C19_Witness ==
    /\ pc = "done"
    /\ nprocs = 1
    /\ Len(tasks) = MaxTasks
    /\ \A b \in DOMAIN runs : runs[b] = 1
    /\ skipped = Range(tasks[3])
    /\ wk[1].exception_count = MAX_EXCEPTIONS_PER_SUBPROCESS + 1
    /\ reraised[1] = 1

-----------------------------------------------------------------------------
(* C20 *)

\* C20: with a fetch client that yields the pages of a batch at most once
\* each, a worker about to insert an Article never finds a row of that
\* pageid stored (no duplicate insert is attempted, so none fails), no page
\* is twice in the rows a worker writes, and `articles` never holds two rows
\* of one pageid.
C20_NoDuplicateArticleInsert ==
    /\ [](\A w \in Procs : wk[w].pc = "article" =>
            ~ArticleKeyTaken(articles, wk[w].rows[wk[w].r].article))
    /\ [](\A w \in Procs : \A j, k \in 1..Len(wk[w].rows) :
            wk[w].rows[j].article.pageid = wk[w].rows[k].article.pageid => j = k)
    /\ [](\A a, b \in articles : a.pageid = b.pageid => a = b)
    /\ [][\A w \in Procs : (wk[w].pc = "article" /\ InsertArticle(w)) =>
            articles' # articles]_vars

\* The job is done, without cancellation and without a failure: pages 1 and
\* 2, of two batches, were written, each once.
C20_Witness ==
    /\ pc = "done"
    /\ ~repeats
    /\ ~terminated
    /\ order = "rev"
    /\ Len(tasks) = 2
    /\ {a.pageid : a \in articles} = {1, 2}
    /\ Cardinality(articles) = 2
    /\ \A w \in Procs : wk[w].exception_count = 0

=============================================================================
